---------------------------- MODULE Spec2Model ----------------------------
(***************************************************************************)
(* Model of blackletter's planning and redaction core:                     *)
(*   core/planner.py   OpinionPlanner  (state machine, case naming)        *)
(*   core/redactor.py  PDFRedactor     (per-page redaction geometry)       *)
(*   core/extractor.py OpinionExtractor (one masked document per opinion)  *)
(*                                                                         *)
(* A layout object is a record [label, page_index, col, y1, y2, coords].   *)
(* Pixel coordinates are floats in the program; here they are fixed-point  *)
(* numbers counted in units of 1/Den pixel, and a length in PDF points is  *)
(* the exact fraction [num, den].                                          *)
(*                                                                         *)
(* Spec        one call of OpinionPlanner.plan on a list of detections     *)
(* SpecRedact  one call of PDFRedactor.redact on a list of instructions    *)
(* SpecExtract one call of OpinionExtractor.split_and_mask_opinions        *)
(* SpecRerun   SpecRedact, where redact may be called again on its output  *)
(* SpecPasses  one run of redact or one run of split_and_mask_opinions     *)
(***************************************************************************)
EXTENDS Integers, Sequences, FiniteSets, TLC

VARIABLES
    pc,                     \* position in OpinionPlanner.plan
    global_objects,         \* plan's local global_objects: the filtered list, then sorted
    first_page,             \* plan's argument page offset
    i,                      \* index of the object the loop is at
    current_state,
    active_start_node,
    candidate_end_node,
    opinion_start_caption,
    redaction_instructions,
    opinion_spans,
    page_headers,
    page_footers,
    opinion_idx,            \* self.opinion_idx
    config,                 \* RedactionConfig: start_offset, end_offset
    page_dimensions,        \* page -> <<pdf_w, pdf_h, img_w, img_h>>
    page_columns_px,        \* page -> <<LEFT_X1, LEFT_X2, RIGHT_X1, RIGHT_X2, split_x>>
    header_refined,         \* page -> what the header refiner returns for it
    page_idx,               \* redact's loop variable
    text_windows,           \* page -> windows handed to the line redactor
    redact_annots,          \* page -> rectangles added with add_redact_annot
    applied,                \* page -> number of apply_redactions calls
    saved,                  \* the redacted document has been saved
    item,                   \* index of the span split_and_mask_opinions is at
    doc_out,                \* the document being built for that span
    masked_dir              \* the files saved in the masked directory, in order

\* state of the planner alone
pvars == <<first_page, i, current_state, active_start_node, candidate_end_node,
           opinion_start_caption, opinion_spans, page_headers, page_footers,
           opinion_idx>>

\* state of the redactor alone
rvars == <<config, page_dimensions, page_columns_px, header_refined, page_idx,
           text_windows, redact_annots, applied, saved>>

\* state of the extractor alone
xvars == <<item, doc_out, masked_dir>>

vars == <<pc, global_objects, redaction_instructions, pvars, rvars, xvars>>

----------------------------------------------------------------------------
(* Bounds *)

MaxObjs == 6      \* longest document
MaxMixed == 4     \* longest document of any label, set in both columns
MaxPage == 2      \* last page index of the document that is redacted
MaxRuns == 2      \* redact is run at most so many times on one document
MaxSpans == 2     \* most opinions in the document that is split
MaxCalls == 2     \* plan is called at most so many times on one planner
Den == 2          \* fixed-point units per pixel

----------------------------------------------------------------------------
(* Values *)

WAIT_CAPTION == "WAIT_CAPTION"
TRACKING == "TRACKING"
LOCKED_UNTIL_KEY == "LOCKED_UNTIL_KEY"

\* n pixels
Px(n) == n * Den

\* a detection in column c: its box spans the column's width
Obj(l, p, c, a, b) ==
    [label |-> l, page_index |-> p, col |-> c, y1 |-> a, y2 |-> b,
     coords |-> IF c = "LEFT" THEN <<Px(110), a, Px(830), b>>
                ELSE IF c = "RIGHT" THEN <<Px(870), a, Px(1590) + 1, b>>
                ELSE <<Px(110), a, Px(1590) + 1, b>>]

\* a layout dict without one of its keys, and the test for a key
Without(o, key) == [f \in (DOMAIN o) \ {key} |-> o[f]]
Has(o, key) == key \in DOMAIN o

\* Python's None for a variable that holds a layout object
None == Obj("None", 0 - 1, "None", 0 - 1, 0 - 1)

\* truthiness of a layout dict or None (a layout dict is never empty)
Truthy(o) == o # None

Max(a, b) == IF a >= b THEN a ELSE b
Min(a, b) == IF a <= b THEN a ELSE b

----------------------------------------------------------------------------
(* Sorting *)

\* comparison of the column strings "LEFT" and "RIGHT" as Python compares str
StrRank(c) == IF c = "LEFT" THEN 0 ELSE 1

\* lexicographic < on key triples
TupleLess(k1, k2) ==
    \/ k1[1] < k2[1]
    \/ k1[1] = k2[1] /\ k1[2] < k2[2]
    \/ k1[1] = k2[1] /\ k1[2] = k2[2] /\ k1[3] < k2[3]

\* a key of column and height alone
ObjKeyWithinPage(o) == <<0, StrRank(o.col), o.y1>>

\* key=lambda o: (o["page_index"], o["col"], o["y1"])
ObjKey(o) == <<o.page_index, StrRank(o.col), o.y1>>

\* stable insertion of x (with key kx) into a sequence sorted by Key
RECURSIVE InsertByKey(_, _, _, _)
InsertByKey(s, ks, x, kx) ==
    IF s = <<>> THEN <<x>>
    ELSE IF TupleLess(kx, Head(ks)) THEN <<x>> \o s
    ELSE <<Head(s)>> \o InsertByKey(Tail(s), Tail(ks), x, kx)

\* sorted(seq, key=...) where keys[j] is the key of seq[j]; stable
RECURSIVE SortedFrom(_, _, _, _)
SortedFrom(done, dkeys, seq, keys) ==
    IF seq = <<>> THEN done
    ELSE SortedFrom(InsertByKey(done, dkeys, Head(seq), Head(keys)),
                    InsertByKey(dkeys, dkeys, Head(keys), Head(keys)),
                    Tail(seq), Tail(keys))

Sorted(seq, keys) == SortedFrom(<<>>, <<>>, seq, keys)

\* the list left in the order the detector produced it
UnsortedObjects(seq) == seq

SortObjects(seq) == Sorted(seq, [j \in 1..Len(seq) |-> ObjKey(seq[j])])

----------------------------------------------------------------------------
(* Header / footer collection, planner.py 61-70 *)

RECURSIVE CollectHeaders(_, _)
CollectHeaders(seq, acc) ==
    IF seq = <<>> THEN acc
    ELSE LET o == Head(seq) IN
         CollectHeaders(Tail(seq),
            IF o.label = "header"
            THEN [p \in DOMAIN acc \cup {o.page_index} |->
                    IF p = o.page_index THEN o.y2 ELSE acc[p]]
            ELSE acc)

RECURSIVE CollectFooters(_, _)
CollectFooters(seq, acc) ==
    IF seq = <<>> THEN acc
    ELSE LET o == Head(seq) IN
         CollectFooters(Tail(seq),
            IF o.label = "footnotes"
            THEN [p \in DOMAIN acc \cup {o.page_index} |->
                    IF p = o.page_index
                    THEN (IF p \in DOMAIN acc THEN Min(acc[p], o.y1) ELSE o.y1)
                    ELSE acc[p]]
            ELSE acc)

EmptyMap == [p \in {} |-> 0]

----------------------------------------------------------------------------
(* _record_opinion_span, planner.py 134-144 *)

Span(n, s, e, r) == [n |-> n, start |-> s, end |-> e, reason |-> r, case_name |-> <<>>]

RecordedSpans(spans, idx, start, end, reason) ==
    IF ~Truthy(start) \/ ~Truthy(end) THEN spans
    ELSE Append(spans, Span(idx + 1, start, end, reason))

RecordedIdx(idx, start, end) ==
    IF ~Truthy(start) \/ ~Truthy(end) THEN idx ELSE idx + 1

----------------------------------------------------------------------------
(* _assign_case_names, planner.py 151-173 *)

COL_ORDER(c) == IF c = "LEFT" THEN 0 ELSE IF c = "RIGHT" THEN 1 ELSE 99

sort_key(span) == <<span.start.page_index, COL_ORDER(span.start.col), span.start.y1>>

Digit(d) == <<"0", "1", "2", "3", "4", "5", "6", "7", "8", "9">>[d + 1]

RECURSIVE Digits(_)
Digits(n) == IF n < 10 THEN <<Digit(n)>> ELSE Digits(n \div 10) \o <<Digit(n % 10)>>

RECURSIVE ZeroPad(_, _)
ZeroPad(s, w) == IF Len(s) >= w THEN s ELSE ZeroPad(<<"0">> \o s, w)

\* format(n, "0{w}d")
FormatD(n, w) ==
    IF n >= 0 THEN ZeroPad(Digits(n), w)
    ELSE <<"-">> \o ZeroPad(Digits(0 - n), w - 1)

\* f"{first_page:04d}-{counter:02d}"
CaseName(fp, counter) == FormatD(fp, 4) \o <<"-">> \o FormatD(counter, 2)

\* one counter for the whole document instead of one per first page
RECURSIVE NameSpansOneCounter(_, _, _)
NameSpansOneCounter(spans, page_start, page_counter) ==
    IF spans = <<>> THEN <<>>
    ELSE LET sp == Head(spans)
             fp == sp.start.page_index + page_start
             counter == (IF 0 \in DOMAIN page_counter THEN page_counter[0] ELSE 0) + 1
             pcnt == [p \in {0} |-> counter]
         IN <<[sp EXCEPT !.case_name = CaseName(fp, counter)]>>
              \o NameSpansOneCounter(Tail(spans), page_start, pcnt)

RECURSIVE NameSpans(_, _, _)
NameSpans(spans, page_start, page_counter) ==
    IF spans = <<>> THEN <<>>
    ELSE LET sp == Head(spans)
             fp == sp.start.page_index + page_start
             counter == (IF fp \in DOMAIN page_counter THEN page_counter[fp] ELSE 0) + 1
             pcnt == [p \in DOMAIN page_counter \cup {fp} |->
                        IF p = fp THEN counter ELSE page_counter[p]]
         IN <<[sp EXCEPT !.case_name = CaseName(fp, counter)]>>
              \o NameSpans(Tail(spans), page_start, pcnt)

AssignCaseNames(spans, page_start) ==
    IF spans = <<>> THEN spans
    ELSE NameSpans(Sorted(spans, [j \in 1..Len(spans) |-> sort_key(spans[j])]),
                   page_start, EmptyMap)

----------------------------------------------------------------------------
(* Redaction geometry, redactor.py *)

Pages == 0..MaxPage

\* int(v): truncation toward zero
Trunc(v) == IF v >= 0 THEN (v \div Den) * Den ELSE 0 - (((0 - v) \div Den) * Den)

\* v pixels times the scale pdf/img, in points
Scaled(v, scale) == [num |-> v * scale[1], den |-> scale[2] * Den]

\* what one page's body redaction works with
Context(ceiling_y, lbl, lbr, cols, sx, sy) ==
    [ceiling_y |-> ceiling_y, limit_bottom_left |-> lbl, limit_bottom_right |-> lbr,
     LEFT_X1 |-> cols[1], LEFT_X2 |-> cols[2], RIGHT_X1 |-> cols[3],
     RIGHT_X2 |-> cols[4], scale_x |-> sx, scale_y |-> sy]

\* redactor.py 134-155: the windows do_column_box hands to the line redactor
do_column_box(y_top_px, y_bottom_px, is_left, ctx) ==
    LET top == Trunc(Max(ctx.ceiling_y, y_top_px))
        max_y_px == IF is_left THEN ctx.limit_bottom_left ELSE ctx.limit_bottom_right
        bottom == Trunc(Min(max_y_px, y_bottom_px))
        xx1_px == IF is_left THEN ctx.LEFT_X1 ELSE ctx.RIGHT_X1
        xx2_px == IF is_left THEN ctx.LEFT_X2 ELSE ctx.RIGHT_X2
    IN IF bottom <= top THEN <<>>
       ELSE << [x0 |-> Scaled(xx1_px, ctx.scale_x), y0 |-> Scaled(top, ctx.scale_y),
                x1 |-> Scaled(xx2_px, ctx.scale_x), y1 |-> Scaled(bottom, ctx.scale_y)] >>

s_col(instr) == instr.start.col = "LEFT"
e_col(instr) == instr.end.col = "LEFT"

\* redactor.py 161-168
CaseSamePage(instr, ctx, cfg) ==
    LET sy == instr.start.y2 + cfg.start_offset
        ey == instr.end.y1 + cfg.end_offset
    IN IF s_col(instr) = e_col(instr)
       THEN do_column_box(sy, ey, s_col(instr), ctx)
       ELSE do_column_box(sy, Px(9999), TRUE, ctx) \o do_column_box(0, ey, FALSE, ctx)

\* the end's column alone
CaseEndsHereEndColumnOnly(instr, ctx, cfg) ==
    LET ey == instr.end.y1 + cfg.end_offset
    IN do_column_box(0, ey, e_col(instr), ctx)

\* redactor.py 171-177
CaseEndsHere(instr, ctx, cfg) ==
    LET ey == instr.end.y1 + cfg.end_offset
    IN IF e_col(instr)
       THEN do_column_box(0, ey, TRUE, ctx)
       ELSE do_column_box(0, Px(9999), TRUE, ctx) \o do_column_box(0, ey, FALSE, ctx)

\* the other column in full whichever column the start is in
CaseStartsHereBothColumns(instr, ctx, cfg) ==
    LET sy == instr.start.y2 + cfg.start_offset
    IN do_column_box(sy, Px(9999), s_col(instr), ctx)
          \o do_column_box(0, Px(9999), ~s_col(instr), ctx)

\* redactor.py 180-186
CaseStartsHere(instr, ctx, cfg) ==
    LET sy == instr.start.y2 + cfg.start_offset
    IN IF s_col(instr)
       THEN do_column_box(sy, Px(9999), TRUE, ctx) \o do_column_box(0, Px(9999), FALSE, ctx)
       ELSE do_column_box(sy, Px(9999), FALSE, ctx)

\* the left column alone
CaseMiddleLeftOnly(ctx) == do_column_box(0, Px(9999), TRUE, ctx)

\* redactor.py 189-191
CaseMiddle(ctx) ==
    do_column_box(0, Px(9999), TRUE, ctx) \o do_column_box(0, Px(9999), FALSE, ctx)

\* no early return, and the case of a start on this page does not look at
\* the end's page
ApplyInstructionNoPageCheck(instr, p, ctx, cfg) ==
    LET sp == instr.start.page_index
        ep == instr.end.page_index
    IN IF sp = p /\ ep = p THEN CaseSamePage(instr, ctx, cfg)
       ELSE IF sp < p /\ ep = p THEN CaseEndsHere(instr, ctx, cfg)
       ELSE IF sp = p THEN CaseStartsHere(instr, ctx, cfg)
       ELSE IF sp < p /\ ep > p THEN CaseMiddle(ctx)
       ELSE <<>>

\* redactor.py 128-191: _apply_instruction on page p
ApplyInstruction(instr, p, ctx, cfg) ==
    LET sp == instr.start.page_index
        ep == instr.end.page_index
    IN IF ep < p \/ sp > p THEN <<>>
       ELSE IF sp = p /\ ep = p THEN CaseSamePage(instr, ctx, cfg)
       ELSE IF sp < p /\ ep = p THEN CaseEndsHere(instr, ctx, cfg)
       ELSE IF sp = p /\ ep > p THEN CaseStartsHere(instr, ctx, cfg)
       ELSE IF sp < p /\ ep > p THEN CaseMiddle(ctx)
       ELSE <<>>

\* redactor.py 81-83
ObjsOnPage(objects, p) == SelectSeq(objects, LAMBDA o : o.page_index = p)

\* every footnote block lowers both limits
RECURSIVE LimitBottomBothColumns(_, _, _)
LimitBottomBothColumns(objs_on_page, left, limit) ==
    IF objs_on_page = <<>> THEN limit
    ELSE LET o == Head(objs_on_page) IN
         LimitBottomBothColumns(Tail(objs_on_page), left,
            IF o.label = "footnotes" THEN Min(limit, o.y1) ELSE limit)

\* redactor.py 206-220; left is TRUE for limit_bottom_left
RECURSIVE LimitBottom(_, _, _)
LimitBottom(objs_on_page, left, limit) ==
    IF objs_on_page = <<>> THEN limit
    ELSE LET o == Head(objs_on_page) IN
         LimitBottom(Tail(objs_on_page), left,
            IF o.label = "footnotes"
            THEN (IF o.col = "LEFT" THEN (IF left THEN Min(limit, o.y1) ELSE limit)
                  ELSE IF o.col = "RIGHT" THEN (IF left THEN limit ELSE Min(limit, o.y1))
                  ELSE Min(limit, o.y1))
            ELSE limit)

RECURSIVE MaxY2(_, _)
MaxY2(headers, m) ==
    IF headers = <<>> THEN m ELSE MaxY2(Tail(headers), Max(m, Head(headers).y2))

\* redactor.py 223-228
CeilingY(objs_on_page, img_h) ==
    LET headers == SelectSeq(objs_on_page, LAMBDA o : o.label = "header")
    IN IF headers = <<>> THEN Px(90)
       ELSE LET max_header_bottom == MaxY2(Tail(headers), Head(headers).y2)
            IN IF 3 * max_header_bottom < Px(img_h)
               THEN Max(Px(90), max_header_bottom + Px(5))
               ELSE Px(90)

\* redactor.py 231-240
ColumnsOf(columns, p, img_h) ==
    IF p \in DOMAIN columns THEN columns[p]
    ELSE << Px(30), Trunc((Px(img_h) \div 2) - Px(5)), Trunc((Px(img_h) \div 2) + Px(5)),
            Trunc(Px(img_h) - Px(30)), Trunc(Px(img_h) \div 2) >>

\* redactor.py 77-79, 206-240: the context of page p
PageContext(objects, dims, columns, p) ==
    LET objs_on_page == ObjsOnPage(objects, p)
        img_h == dims[p][4]
    IN Context(CeilingY(objs_on_page, img_h),
               LimitBottom(objs_on_page, TRUE, Px(img_h) - Px(60)),
               LimitBottom(objs_on_page, FALSE, Px(img_h) - Px(60)),
               ColumnsOf(columns, p, img_h),
               <<dims[p][1], dims[p][3]>>, <<dims[p][2], dims[p][4]>>)

\* redactor.py 243-258: every instruction in turn
RECURSIVE BodyWindows(_, _, _, _)
BodyWindows(instructions, p, ctx, cfg) ==
    IF instructions = <<>> THEN <<>>
    ELSE ApplyInstruction(Head(instructions), p, ctx, cfg)
            \o BodyWindows(Tail(instructions), p, ctx, cfg)

\* redactor.py 316-328: _add_redaction_box
AddRedactionBox(c, sx, sy) ==
    IF c[4] <= c[2] \/ c[3] <= c[1] THEN <<>>
    ELSE << [x0 |-> Scaled(c[1], sx), y0 |-> Scaled(c[2], sy),
             x1 |-> Scaled(c[3], sx), y1 |-> Scaled(c[4], sy)] >>

IntCoords(o) == [k \in 1..4 |-> Trunc(o.coords[k])]

\* redactor.py 274-281
RECURSIVE ObjectBoxes(_, _, _)
ObjectBoxes(objs_on_page, sx, sy) ==
    IF objs_on_page = <<>> THEN <<>>
    ELSE LET o == Head(objs_on_page) IN
         (IF o.label \in {"line", "Key", "brackets", "order"}
          THEN AddRedactionBox(IntCoords(o), sx, sy) ELSE <<>>)
            \o ObjectBoxes(Tail(objs_on_page), sx, sy)

\* redactor.py 277-284: the labels whose coords are read
ReadsCoords(o) == o.label \in {"line", "Key", "brackets", "order", "header"}

\* position of the first object of the page whose coords are read and are
\* missing (o["coords"] raises KeyError there), 0 if there is none
RECURSIVE FirstKeyError(_, _)
FirstKeyError(objs_on_page, k) ==
    IF k > Len(objs_on_page) THEN 0
    ELSE IF ReadsCoords(objs_on_page[k]) /\ ~Has(objs_on_page[k], "coords") THEN k
    ELSE FirstKeyError(objs_on_page, k + 1)

\* Python's None for header_coord and for the refiner's result
NoCoord == <<>>
NoRect == [x0 |-> Scaled(0, <<0, 0>>), y0 |-> Scaled(0, <<0, 0>>),
           x1 |-> Scaled(0, <<0, 0>>), y1 |-> Scaled(0, <<0, 0>>)]

\* redactor.py 283-284: the coords of the last header on the page, or None
HeaderCoord(objs_on_page) ==
    LET headers == SelectSeq(objs_on_page, LAMBDA o : o.label = "header")
    IN IF headers = <<>> THEN NoCoord ELSE IntCoords(headers[Len(headers)])

\* the refiner's box is registered as it is
HeaderBoxesNotExtended(hdr, header_coord, sx, sy) ==
    IF hdr # NoRect THEN <<hdr>>
    ELSE IF header_coord # NoCoord THEN AddRedactionBox(header_coord, sx, sy)
    ELSE <<>>

\* redactor.py 297-313; hdr is the refiner's box in points (its lengths have
\* the page's denominator), or None
HeaderBoxes(hdr, header_coord, sx, sy) ==
    IF hdr # NoRect
    THEN LET ry2 == IF header_coord # NoCoord THEN Scaled(header_coord[4], sy) ELSE hdr.y1
         IN << [hdr EXCEPT !.y1 = IF hdr.y1.num >= ry2.num THEN hdr.y1 ELSE ry2] >>
    ELSE IF header_coord # NoCoord THEN AddRedactionBox(header_coord, sx, sy)
    ELSE <<>>

\* the redactor before redact is called
RedactorIdle ==
    /\ config = [start_offset |-> 0, end_offset |-> 0]
    /\ page_dimensions = EmptyMap
    /\ page_columns_px = EmptyMap
    /\ header_refined = EmptyMap
    /\ page_idx = 0
    /\ text_windows = [p \in Pages |-> <<>>]
    /\ redact_annots = [p \in Pages |-> <<>>]
    /\ applied = [p \in Pages |-> 0]
    /\ saved = FALSE

\* no document is open
NoDoc == [pages |-> <<>>, annots |-> <<>>, applied |-> <<>>]

\* the extractor before split_and_mask_opinions is called
ExtractorIdle ==
    /\ item = 0
    /\ doc_out = NoDoc
    /\ masked_dir = <<>>

----------------------------------------------------------------------------
(* Inputs *)

PlanLabels == {"caption", "line", "headmatter", "Key"}

FurnitureLabels == {"header", "footnotes"}

\* documents of up to MaxMixed objects carry any label, longer ones only the
\* four labels that drive the state machine
LabelsFor(n) == IF n <= MaxMixed THEN PlanLabels \cup FurnitureLabels ELSE PlanLabels

\* documents of up to MaxMixed objects are split over the three slots in any
\* way, longer ones leave the right column of the first page empty
LeftCounts(n, k2) == IF n <= MaxMixed THEN 0..k2 ELSE {k2}

\* three reading positions of a two-column document, in reading order
Slots == << [page_index |-> 0, col |-> "LEFT",  y1 |-> 2],
            [page_index |-> 0, col |-> "RIGHT", y1 |-> 1],
            [page_index |-> 1, col |-> "LEFT",  y1 |-> 3] >>

SlotObj(l, s) == Obj(l, Slots[s].page_index, Slots[s].col, Slots[s].y1, Slots[s].y1 + 1)

\* a document of n objects: the first k1 at Slots[1], up to k2 at Slots[2],
\* the rest at Slots[3]
Document(lab, k1, k2) ==
    [j \in DOMAIN lab |-> SlotObj(lab[j], IF j <= k1 THEN 1 ELSE IF j <= k2 THEN 2 ELSE 3)]

\* the detections of a document as the caller hands them over: not in
\* reading order (on the first page the right column comes before the left)
Detections(doc, k1, k2) ==
    SubSeq(doc, k1 + 1, k2) \o SubSeq(doc, 1, k1) \o SubSeq(doc, k2 + 1, Len(doc))

FirstPages == {1, 9999}

\* two headers of one page and column that begin at the same height and end
\* at different heights, detected in either order
TiedHeaders ==
    LET shorter == Obj("header", 0, "LEFT", 2, 3)
        taller == Obj("header", 0, "LEFT", 2, 4)
    IN {<<shorter, taller>>, <<taller, shorter>>}

Init ==
    /\ \/ \E n \in 0..MaxObjs : \E lab \in [1..n -> LabelsFor(n)] :
            \E k2 \in 0..n : \E k1 \in LeftCounts(n, k2) :
               global_objects = Detections(Document(lab, k1, k2), k1, k2)
       \/ global_objects \in TiedHeaders
    /\ pc = "start"
    /\ first_page = 0
    /\ i = 0
    /\ current_state = WAIT_CAPTION
    /\ active_start_node = None
    /\ candidate_end_node = None
    /\ opinion_start_caption = None
    /\ redaction_instructions = <<>>
    /\ opinion_spans = <<>>
    /\ page_headers = EmptyMap
    /\ page_footers = EmptyMap
    /\ opinion_idx = 0
    /\ RedactorIdle
    /\ ExtractorIdle

----------------------------------------------------------------------------
(* OpinionPlanner.plan *)

\* planner.py 45-70: sort, reset the locals, collect headers and footers
PlanStart ==
    /\ pc = "start"
    /\ global_objects' = SortObjects(global_objects)
    /\ redaction_instructions' = <<>>
    /\ opinion_spans' = <<>>
    /\ page_headers' = CollectHeaders(global_objects', EmptyMap)
    /\ page_footers' = CollectFooters(global_objects', EmptyMap)
    /\ active_start_node' = None
    /\ candidate_end_node' = None
    /\ opinion_start_caption' = None
    /\ current_state' = WAIT_CAPTION
    /\ i' = 1
    /\ pc' = "scan"
    /\ UNCHANGED <<first_page, opinion_idx, rvars, xvars>>

AtObject == pc = "scan" /\ i <= Len(global_objects)

obj == global_objects[i]

Advance ==
    /\ i' = i + 1
    /\ UNCHANGED <<pc, global_objects, first_page, page_headers, page_footers, rvars,
                   xvars>>

\* planner.py 76-77
SkipLabel ==
    /\ AtObject
    /\ obj.label \notin {"caption", "line", "headmatter", "Key"}
    /\ Advance
    /\ UNCHANGED <<current_state, active_start_node, candidate_end_node,
                   opinion_start_caption, redaction_instructions, opinion_spans,
                   opinion_idx>>

\* planner.py 80-88, label == "Key"
LockedKey ==
    /\ AtObject
    /\ obj.label \in {"caption", "line", "headmatter", "Key"}
    /\ current_state = LOCKED_UNTIL_KEY
    /\ obj.label = "Key"
    /\ opinion_spans' = RecordedSpans(opinion_spans, opinion_idx,
                                      opinion_start_caption, obj, "caption->Key")
    /\ opinion_idx' = RecordedIdx(opinion_idx, opinion_start_caption, obj)
    /\ opinion_start_caption' = None
    /\ current_state' = WAIT_CAPTION
    /\ Advance
    /\ UNCHANGED <<active_start_node, candidate_end_node, redaction_instructions>>

\* a caption met while locked starts the next opinion
LockedCaptionStarts ==
    /\ AtObject
    /\ obj.label \in {"caption", "line", "headmatter"}
    /\ current_state = LOCKED_UNTIL_KEY
    /\ active_start_node' = (IF obj.label = "caption" THEN obj ELSE active_start_node)
    /\ opinion_start_caption' = (IF obj.label = "caption" THEN obj ELSE opinion_start_caption)
    /\ current_state' = (IF obj.label = "caption" THEN TRACKING ELSE current_state)
    /\ Advance
    /\ UNCHANGED <<candidate_end_node, redaction_instructions, opinion_spans, opinion_idx>>

\* planner.py 80-88, any other label
LockedIgnore ==
    /\ AtObject
    /\ obj.label \in {"caption", "line", "headmatter"}
    /\ current_state = LOCKED_UNTIL_KEY
    /\ Advance
    /\ UNCHANGED <<current_state, active_start_node, candidate_end_node,
                   opinion_start_caption, redaction_instructions, opinion_spans,
                   opinion_idx>>

\* planner.py 91-96, label == "caption"
WaitCaption ==
    /\ AtObject
    /\ current_state = WAIT_CAPTION
    /\ obj.label = "caption"
    /\ active_start_node' = obj
    /\ opinion_start_caption' = obj
    /\ current_state' = TRACKING
    /\ Advance
    /\ UNCHANGED <<candidate_end_node, redaction_instructions, opinion_spans,
                   opinion_idx>>

\* planner.py 91-96, any other label
WaitIgnore ==
    /\ AtObject
    /\ current_state = WAIT_CAPTION
    /\ obj.label \in {"line", "headmatter", "Key"}
    /\ Advance
    /\ UNCHANGED <<current_state, active_start_node, candidate_end_node,
                   opinion_start_caption, redaction_instructions, opinion_spans,
                   opinion_idx>>

\* planner.py 100-104
TrackLine ==
    /\ AtObject
    /\ current_state = TRACKING
    /\ obj.label = "line"
    /\ redaction_instructions' =
          Append(redaction_instructions, [start |-> active_start_node, end |-> obj])
    /\ current_state' = LOCKED_UNTIL_KEY
    /\ Advance
    /\ UNCHANGED <<active_start_node, candidate_end_node, opinion_start_caption,
                   opinion_spans, opinion_idx>>

\* planner.py 106-108
TrackHeadmatter ==
    /\ AtObject
    /\ current_state = TRACKING
    /\ obj.label = "headmatter"
    /\ candidate_end_node' =
          IF candidate_end_node = None THEN obj ELSE candidate_end_node
    /\ Advance
    /\ UNCHANGED <<current_state, active_start_node, opinion_start_caption,
                   redaction_instructions, opinion_spans, opinion_idx>>

\* planner.py 110-125
TrackKey ==
    /\ AtObject
    /\ current_state = TRACKING
    /\ obj.label = "Key"
    /\ opinion_spans' = RecordedSpans(opinion_spans, opinion_idx,
                                      opinion_start_caption, obj, "caption->Key")
    /\ opinion_idx' = RecordedIdx(opinion_idx, opinion_start_caption, obj)
    /\ redaction_instructions' =
          IF Truthy(candidate_end_node)
          THEN Append(redaction_instructions,
                      [start |-> active_start_node, end |-> candidate_end_node])
          ELSE redaction_instructions
    /\ current_state' = WAIT_CAPTION
    /\ active_start_node' = None
    /\ candidate_end_node' = None
    /\ opinion_start_caption' = None
    /\ Advance

\* a caption seen while tracking restarts the opinion
TrackCaptionRestarts ==
    /\ AtObject
    /\ current_state = TRACKING
    /\ obj.label = "caption"
    /\ active_start_node' = obj
    /\ opinion_start_caption' = obj
    /\ Advance
    /\ UNCHANGED <<current_state, candidate_end_node, redaction_instructions,
                   opinion_spans, opinion_idx>>

\* planner.py 99-125, label == "caption": no branch matches
TrackCaption ==
    /\ AtObject
    /\ current_state = TRACKING
    /\ obj.label = "caption"
    /\ Advance
    /\ UNCHANGED <<current_state, active_start_node, candidate_end_node,
                   opinion_start_caption, redaction_instructions, opinion_spans,
                   opinion_idx>>

\* planner.py 127-132: name the spans and return; first_page, an argument of
\* plan, is read nowhere before this point
PlanFinish ==
    /\ pc = "scan"
    /\ i > Len(global_objects)
    /\ \E fp \in FirstPages :
         /\ first_page' = fp
         /\ opinion_spans' = AssignCaseNames(opinion_spans, fp)
    /\ pc' = "done"
    /\ UNCHANGED <<global_objects, i, current_state, active_start_node,
                   candidate_end_node, opinion_start_caption,
                   redaction_instructions, page_headers, page_footers,
                   opinion_idx, rvars, xvars>>

Next ==
    \/ PlanStart
    \/ SkipLabel
    \/ LockedKey
    \/ LockedIgnore
    \/ WaitCaption
    \/ WaitIgnore
    \/ TrackLine
    \/ TrackHeadmatter
    \/ TrackKey
    \/ TrackCaption
    \/ PlanFinish

Spec == Init /\ [][Next]_vars

\* A further call of plan on the same OpinionPlanner with the same list.
\* plan rebinds only its local name to the sorted list and sorting a sorted
\* list returns it, so the list of the first call stands for the caller's;
\* plan's locals are set again by PlanStart.  self.opinion_idx is assigned
\* in __init__ alone (planner.py 26) and keeps its value.
PlanAgain ==
    /\ pc = "done"
    /\ opinion_idx < MaxCalls * Len(opinion_spans)
    /\ pc' = "start"
    /\ UNCHANGED <<global_objects, first_page, i, current_state, active_start_node,
                   candidate_end_node, opinion_start_caption, redaction_instructions,
                   opinion_spans, page_headers, page_footers, opinion_idx, rvars,
                   xvars>>

\* the lists of at most MaxMixed objects
InitReplan == Init /\ Len(global_objects) <= MaxMixed

NextReplan == Next \/ PlanAgain

SpecReplan == InitReplan /\ [][NextReplan]_vars

----------------------------------------------------------------------------
(* Inputs of PDFRedactor.redact *)

\* y2 of a start and y1 of an end: above the ceiling, two in the body (one
\* of them not a whole pixel), below the bottom margin
YValues == {Px(50), Px(400) + 1, Px(1200), Px(2150)}

Starts == {Obj("caption", p, c, y - Px(20), y) : p \in Pages, c \in {"LEFT", "RIGHT"}, y \in YValues}
Ends == {Obj("line", p, c, y, y + Px(20)) : p \in Pages, c \in {"LEFT", "RIGHT"}, y \in YValues}

\* no instruction or one; plan can return one whose end reads before its
\* start (C1), so every pair of a start and an end is taken
InstructionLists ==
    {<<>>} \cup {<<[start |-> st, end |-> en]>> : st \in Starts, en \in Ends}

\* a letter page rendered at 200 dpi
PageSize == <<612, 792, 1700, 2200>>
PageColumns == <<Px(100), Px(840), Px(860), Px(1600), Px(850)>>

\* what the header refiner returns when it finds a header
RefinedBox ==
    [x0 |-> Scaled(Px(30), <<PageSize[1], PageSize[3]>>),
     y0 |-> Scaled(Px(40), <<PageSize[2], PageSize[4]>>),
     x1 |-> Scaled(Px(1670), <<PageSize[1], PageSize[3]>>),
     y1 |-> Scaled(Px(125), <<PageSize[2], PageSize[4]>>)]

\* labels a malformed object is given: one whose coords redact reads, one
\* whose coords it does not
MalformedLabels == {"line", "footnotes"}

Setup(furniture, nodims, fallback, refined) ==
    [furniture |-> furniture, nodims |-> nodims, fallback |-> fallback, refined |-> refined]

\* what else is on the pages: nothing, one footnote block, one header (found
\* or not by the refiner), two footnote blocks on the first page (the lower
\* one first), a footnote block below the bottom margin, a header only the
\* refiner finds, a page without dimensions, no column map, an object that
\* lacks a key, two headers on the first page (the lower one first), or a
\* header less than a pixel high
Setups ==
    {Setup(<<>>, {}, FALSE, {})}
    \cup {Setup(<<Obj("footnotes", p, c, Px(1500), Px(2100))>>, {}, FALSE, {}) :
            p \in Pages, c \in {"LEFT", "RIGHT", "UNSET"}}
    \cup {Setup(<<Obj("header", p, "UNSET", Px(40), y)>>, {}, FALSE, IF r THEN {p} ELSE {}) :
            p \in Pages, y \in {Px(120) + 1, Px(900)}, r \in BOOLEAN}
    \cup {Setup(<<Obj("footnotes", 0, c[1], Px(1800), Px(2100)),
                   Obj("footnotes", 0, c[2], Px(1500), Px(1700))>>, {}, FALSE, {}) :
            c \in {"LEFT", "RIGHT", "UNSET"} \X {"LEFT", "RIGHT", "UNSET"}}
    \cup {Setup(<<Obj("footnotes", 0, "UNSET", Px(2170), Px(2190))>>, {}, FALSE, {})}
    \cup {Setup(<<>>, {}, FALSE, {p}) : p \in Pages}
    \cup {Setup(<<Obj("header", 0, "UNSET", Px(40), Px(900)),
                   Obj("header", 0, "UNSET", Px(40), Px(120) + 1)>>, {}, FALSE,
                 IF r THEN {0} ELSE {}) : r \in BOOLEAN}
    \cup {Setup(<<Obj("header", 0, "UNSET", Px(40), Px(40) + 1)>>, {}, FALSE, {})}
    \cup {Setup(<<>>, {p}, FALSE, {}) : p \in Pages}
    \cup {Setup(<<>>, {}, TRUE, {})}
    \cup {Setup(<<Without(Obj(l, p, "LEFT", Px(1500), Px(1520)), "coords")>>, {}, FALSE, {}) :
            p \in Pages, l \in MalformedLabels}
    \cup {Setup(<<Without(Obj(l, 0, "LEFT", Px(1500), Px(1520)), "page_index")>>, {}, FALSE, {}) :
            l \in MalformedLabels}

Configs == {[start_offset |-> 0, end_offset |-> 0],
            [start_offset |-> Px(3), end_offset |-> 0 - Px(2)]}

RECURSIVE InstructionObjects(_)
InstructionObjects(instructions) ==
    IF instructions = <<>> THEN <<>>
    ELSE <<Head(instructions).start, Head(instructions).end>>
            \o InstructionObjects(Tail(instructions))

InitRedact ==
    /\ pc = "page"
    /\ \E instructions \in InstructionLists : \E setup \in Setups :
          /\ redaction_instructions = instructions
          /\ global_objects = InstructionObjects(instructions) \o setup.furniture
          /\ page_dimensions = [p \in Pages \ setup.nodims |-> PageSize]
          /\ page_columns_px = [p \in (IF setup.fallback THEN {} ELSE Pages) |-> PageColumns]
          /\ header_refined = [p \in Pages |-> IF p \in setup.refined THEN RefinedBox ELSE NoRect]
    /\ config \in Configs
    /\ first_page = 0
    /\ i = 0
    /\ current_state = WAIT_CAPTION
    /\ active_start_node = None
    /\ candidate_end_node = None
    /\ opinion_start_caption = None
    /\ opinion_spans = <<>>
    /\ page_headers = EmptyMap
    /\ page_footers = EmptyMap
    /\ opinion_idx = 0
    /\ page_idx = 0
    /\ text_windows = [p \in Pages |-> <<>>]
    /\ redact_annots = [p \in Pages |-> <<>>]
    /\ applied = [p \in Pages |-> 0]
    /\ saved = FALSE
    /\ ExtractorIdle

----------------------------------------------------------------------------
(* PDFRedactor.redact *)

\* len(doc)
NumPages == MaxPage + 1

RedactFrame ==
    UNCHANGED <<global_objects, redaction_instructions, pvars, config,
                page_dimensions, page_columns_px, header_refined, saved, xvars>>

\* a page without dimensions ends the loop
RedactSkipPageStops ==
    /\ pc = "page"
    /\ page_idx < NumPages
    /\ page_idx \notin DOMAIN page_dimensions
    /\ page_idx' = NumPages
    /\ RedactFrame
    /\ UNCHANGED <<pc, text_windows, redact_annots, applied>>

\* redactor.py 74-75: a page without dimensions is passed over
RedactSkipPage ==
    /\ pc = "page"
    /\ page_idx < NumPages
    /\ page_idx \notin DOMAIN page_dimensions
    /\ page_idx' = page_idx + 1
    /\ RedactFrame
    /\ UNCHANGED <<pc, text_windows, redact_annots, applied>>

\* the body redactions are applied as soon as they are registered
RedactBodyApplies ==
    /\ pc = "page"
    /\ page_idx < NumPages
    /\ page_idx \in DOMAIN page_dimensions
    /\ \A k \in DOMAIN global_objects : Has(global_objects[k], "page_index")
    /\ text_windows' =
          [text_windows EXCEPT ![page_idx] =
              @ \o BodyWindows(redaction_instructions, page_idx,
                               PageContext(global_objects, page_dimensions,
                                           page_columns_px, page_idx),
                               config)]
    /\ applied' = [applied EXCEPT ![page_idx] = @ + 1]
    /\ pc' = "body_done"
    /\ RedactFrame
    /\ UNCHANGED <<page_idx, redact_annots>>

\* redactor.py 81-83: o["page_index"] raises KeyError
RedactBodyRaises ==
    /\ pc = "page"
    /\ page_idx < NumPages
    /\ page_idx \in DOMAIN page_dimensions
    /\ \E k \in DOMAIN global_objects : ~Has(global_objects[k], "page_index")
    /\ pc' = "error"
    /\ RedactFrame
    /\ UNCHANGED <<page_idx, text_windows, redact_annots, applied>>

\* redactor.py 77-95: _apply_body_redactions
RedactBody ==
    /\ pc = "page"
    /\ page_idx < NumPages
    /\ page_idx \in DOMAIN page_dimensions
    /\ \A k \in DOMAIN global_objects : Has(global_objects[k], "page_index")
    /\ text_windows' =
          [text_windows EXCEPT ![page_idx] =
              @ \o BodyWindows(redaction_instructions, page_idx,
                               PageContext(global_objects, page_dimensions,
                                           page_columns_px, page_idx),
                               config)]
    /\ pc' = "body_done"
    /\ RedactFrame
    /\ UNCHANGED <<page_idx, redact_annots, applied>>

\* redactor.py 274-284: o["coords"] raises KeyError, after the boxes of the
\* objects before o have been added
RedactObjectsRaises ==
    /\ pc = "body_done"
    /\ LET objs_on_page == ObjsOnPage(global_objects, page_idx)
           sx == <<page_dimensions[page_idx][1], page_dimensions[page_idx][3]>>
           sy == <<page_dimensions[page_idx][2], page_dimensions[page_idx][4]>>
           bad == FirstKeyError(objs_on_page, 1)
       IN /\ bad > 0
          /\ redact_annots' =
                [redact_annots EXCEPT ![page_idx] =
                    @ \o ObjectBoxes(SubSeq(objs_on_page, 1, bad - 1), sx, sy)]
    /\ pc' = "error"
    /\ RedactFrame
    /\ UNCHANGED <<page_idx, text_windows, applied>>

\* redactor.py 97-99: _apply_object_redactions
RedactObjects ==
    /\ pc = "body_done"
    /\ FirstKeyError(ObjsOnPage(global_objects, page_idx), 1) = 0
    /\ LET objs_on_page == ObjsOnPage(global_objects, page_idx)
           sx == <<page_dimensions[page_idx][1], page_dimensions[page_idx][3]>>
           sy == <<page_dimensions[page_idx][2], page_dimensions[page_idx][4]>>
       IN redact_annots' =
             [redact_annots EXCEPT ![page_idx] =
                 @ \o ObjectBoxes(objs_on_page, sx, sy)
                   \o HeaderBoxes(header_refined[page_idx], HeaderCoord(objs_on_page), sx, sy)]
    /\ pc' = "objects_done"
    /\ RedactFrame
    /\ UNCHANGED <<page_idx, text_windows, applied>>

\* redactor.py 101: page_fitz.apply_redactions(), then the next page
RedactApply ==
    /\ pc = "objects_done"
    /\ applied' = [applied EXCEPT ![page_idx] = @ + 1]
    /\ page_idx' = page_idx + 1
    /\ pc' = "page"
    /\ RedactFrame
    /\ UNCHANGED <<text_windows, redact_annots>>

\* redactor.py 103-109: doc.save
RedactSave ==
    /\ pc = "page"
    /\ page_idx = NumPages
    /\ saved' = TRUE
    /\ pc' = "saved"
    /\ UNCHANGED <<global_objects, redaction_instructions, pvars, config,
                   page_dimensions, page_columns_px, header_refined, page_idx,
                   text_windows, redact_annots, applied, xvars>>

NextRedact ==
    \/ RedactSkipPage
    \/ RedactBodyRaises
    \/ RedactBody
    \/ RedactObjectsRaises
    \/ RedactObjects
    \/ RedactApply
    \/ RedactSave

SpecRedact == InitRedact /\ [][NextRedact]_vars

\* redactor.py 43-67: redact is called once more, with the same arguments, on
\* the document it saved; text_windows, redact_annots and applied keep what
\* was done to each page of the document over the runs
RedactAgain ==
    /\ pc = "saved"
    /\ \A p \in Pages : applied[p] < MaxRuns
    /\ page_idx' = 0
    /\ pc' = "page"
    /\ RedactFrame
    /\ UNCHANGED <<text_windows, redact_annots, applied>>

NextRerun == NextRedact \/ RedactAgain

SpecRerun == InitRedact /\ [][NextRerun]_vars

----------------------------------------------------------------------------
(* Masking geometry, extractor.py.  Lengths in points are whole numbers of *)
(* 1/(dpi * Den) point.                                                    *)

\* RedactionConfig.dpi
dpi == 200

\* n points
Pt(n) == n * dpi * Den

\* v pixels times scale = 72 / dpi, in points (extractor.py 45)
PxToPt(v) == v * 72

\* fitz.Rect(x0, y0, x1, y1)
Rect(x0, y0, x1, y1) == [x0 |-> x0, y0 |-> y0, x1 |-> x1, y1 |-> y1]

\* extractor.py 105-109; a footer y of 0 is falsy
get_footer_pt(footers, pg_idx, page_height_pt) ==
    IF pg_idx \in DOMAIN footers /\ footers[pg_idx] # 0
    THEN Min(page_height_pt, PxToPt(footers[pg_idx]))
    ELSE page_height_pt

\* extractor.py 111-114
get_header_pt(headers, pg_idx) ==
    Max(0, PxToPt(IF pg_idx \in DOMAIN headers THEN headers[pg_idx] ELSE 0))

\* extractor.py 116-119: the rectangle is added only if it is not empty
safe_redact(rect) ==
    IF rect.y1 > rect.y0 /\ rect.x1 > rect.x0 THEN <<rect>> ELSE <<>>

\* extractor.py 121-126
get_split_pt(columns, pg_idx, page_width_pt) ==
    IF pg_idx \in DOMAIN columns THEN PxToPt(columns[pg_idx][5])
    ELSE page_width_pt \div 2

\* the start's own column is masked down to the footer, whatever the start y
StartPageMasksToFooter(span, columns, headers, footers, W_start, H_start) ==
    LET split_start == get_split_pt(columns, span.start.page_index, W_start)
        hy_start == get_header_pt(headers, span.start.page_index) + Pt(2)
        fy_start == get_footer_pt(footers, span.start.page_index, H_start)
    IN IF span.start.col = "LEFT"
       THEN safe_redact(Rect(0, hy_start, split_start, fy_start))
               \o safe_redact(Rect(split_start, hy_start, W_start, fy_start))
       ELSE IF span.start.col = "RIGHT"
       THEN safe_redact(Rect(0, hy_start, split_start, fy_start))
               \o safe_redact(Rect(split_start, hy_start, W_start, fy_start))
       ELSE <<>>

\* extractor.py 128-149: the rectangles added to the start page
StartPageMasks(span, columns, headers, footers, W_start, H_start) ==
    LET split_start == get_split_pt(columns, span.start.page_index, W_start)
        sy_pt == PxToPt(span.start.coords[2])
        hy_start == get_header_pt(headers, span.start.page_index) + Pt(2)
        fy_start == get_footer_pt(footers, span.start.page_index, H_start)
    IN IF span.start.col = "LEFT"
       THEN safe_redact(Rect(0, hy_start, split_start, Min(sy_pt, fy_start)))
               \o safe_redact(Rect(split_start, hy_start, W_start, fy_start))
       ELSE IF span.start.col = "RIGHT"
       THEN safe_redact(Rect(0, hy_start, split_start, fy_start))
               \o safe_redact(Rect(split_start, hy_start, W_start, Min(sy_pt, fy_start)))
       ELSE <<>>

\* the left column is masked in full when the end is in the right column
EndPageMasksBothColumns(span, columns, headers, footers, W_end, H_end) ==
    LET split_end == get_split_pt(columns, span.end.page_index, W_end)
        ey_pt == PxToPt(span.end.coords[4])
        hy_end == get_header_pt(headers, span.end.page_index) + Pt(2)
        fy_end == get_footer_pt(footers, span.end.page_index, H_end)
    IN IF span.end.col = "LEFT"
       THEN safe_redact(Rect(0, ey_pt, split_end, fy_end))
               \o safe_redact(Rect(split_end, hy_end, W_end, fy_end))
       ELSE IF span.end.col = "RIGHT"
       THEN safe_redact(Rect(split_end, ey_pt, W_end, fy_end))
               \o safe_redact(Rect(0, hy_end, split_end, fy_end))
       ELSE <<>>

\* extractor.py 151-164: the rectangles added to the end page
EndPageMasks(span, columns, headers, footers, W_end, H_end) ==
    LET split_end == get_split_pt(columns, span.end.page_index, W_end)
        ey_pt == PxToPt(span.end.coords[4])
        hy_end == get_header_pt(headers, span.end.page_index) + Pt(2)
        fy_end == get_footer_pt(footers, span.end.page_index, H_end)
    IN IF span.end.col = "LEFT"
       THEN safe_redact(Rect(0, ey_pt, split_end, fy_end))
               \o safe_redact(Rect(split_end, hy_end, W_end, fy_end))
       ELSE IF span.end.col = "RIGHT"
       THEN safe_redact(Rect(split_end, ey_pt, W_end, fy_end))
       ELSE <<>>

\* the range stops before to_page
InsertPdfExclusive(from_page, to_page) ==
    [k \in 1..(to_page - from_page) |-> from_page + k - 1]

\* extractor.py 57-58: doc_out.insert_pdf(src, from_page, to_page) copies
\* the pages from_page..to_page, backwards if from_page > to_page
InsertPdf(from_page, to_page) ==
    IF from_page <= to_page
    THEN [k \in 1..(to_page - from_page + 1) |-> from_page + k - 1]
    ELSE [k \in 1..(from_page - to_page + 1) |-> from_page - k + 1]

----------------------------------------------------------------------------
(* Inputs of OpinionExtractor.split_and_mask_opinions: what plan returns   *)

\* a reads before b in the order plan sorts by
Before(a, b) == TupleLess(ObjKey(a), ObjKey(b))

\* the reading positions of the document, in reading order: page, column,
\* y1
Positions == 0..(4 * NumPages - 1)

PositionY(n) == IF n % 2 = 0 THEN Px(100) ELSE Px(1000) + 1

\* the object with label l at position n
At(l, n) ==
    Obj(l, n \div 4, IF (n \div 2) % 2 = 0 THEN "LEFT" ELSE "RIGHT",
        PositionY(n), PositionY(n) + Px(20))

\* the r-th smallest member of a set of positions
NthPosition(S, r) == CHOOSE n \in S : Cardinality({m \in S : m < n}) = r - 1

\* the spans plan records for captions and Keys that alternate at the
\* positions S: up to MaxSpans opinions, each from a caption to a later Key,
\* each opinion after the one before
SpanLists ==
    {[k \in 1..(Cardinality(S) \div 2) |->
         Span(k, At("caption", NthPosition(S, 2 * k - 1)), At("Key", NthPosition(S, 2 * k)),
              "caption->Key")] :
       S \in {T \in SUBSET Positions :
                 Cardinality(T) % 2 = 0 /\ Cardinality(T) <= 2 * MaxSpans}}

\* the spans of one document follow one another
WellNested(spans) ==
    /\ \A k \in 1..Len(spans) : Before(spans[k].start, spans[k].end)
    /\ \A k \in 1..(Len(spans) - 1) : Before(spans[k].end, spans[k + 1].start)

Furnishing(headers, footers, columns) ==
    [headers |-> headers, footers |-> footers, columns |-> columns]

\* what plan found, on the first page alone or on every page: nothing; a
\* header (in the top margin, or lower than anything else); a footnote block
\* (at y 0, in the body, or below the page); a header and a footnote block;
\* or no column map
Furnishings ==
    {Furnishing(EmptyMap, EmptyMap, TRUE), Furnishing(EmptyMap, EmptyMap, FALSE)}
    \cup {Furnishing([q \in P |-> y], EmptyMap, TRUE) :
            P \in {{0}, Pages}, y \in {Px(120) + 1, Px(2150)}}
    \cup {Furnishing(EmptyMap, [q \in P |-> y], TRUE) :
            P \in {{0}, Pages}, y \in {0, Px(600), Px(2300)}}
    \cup {Furnishing([q \in P |-> Px(120) + 1], [q \in P |-> Px(600)], TRUE) :
            P \in {{0}, Pages}}

InitExtract ==
    /\ pc = "item"
    /\ \E spans \in {sl \in SpanLists : WellNested(sl)} :
       \E fp \in (IF Len(spans) <= 1 THEN FirstPages ELSE {1}) :
          /\ first_page = fp
          /\ opinion_spans = AssignCaseNames(spans, fp)
          /\ opinion_idx = Len(spans)
    /\ \E f \in Furnishings :
          /\ page_headers = f.headers
          /\ page_footers = f.footers
          /\ page_columns_px = [p \in (IF f.columns THEN Pages ELSE {}) |-> PageColumns]
    /\ global_objects = <<>>
    /\ redaction_instructions = <<>>
    /\ i = 0
    /\ current_state = WAIT_CAPTION
    /\ active_start_node = None
    /\ candidate_end_node = None
    /\ opinion_start_caption = None
    /\ config = [start_offset |-> 0, end_offset |-> 0]
    /\ page_dimensions = [p \in Pages |-> PageSize]
    /\ header_refined = EmptyMap
    /\ page_idx = 0
    /\ text_windows = [p \in Pages |-> <<>>]
    /\ redact_annots = [p \in Pages |-> <<>>]
    /\ applied = [p \in Pages |-> 0]
    /\ saved = FALSE
    /\ item = 1
    /\ doc_out = NoDoc
    /\ masked_dir = <<>>

----------------------------------------------------------------------------
(* OpinionExtractor.split_and_mask_opinions *)

ExtractFrame ==
    UNCHANGED <<global_objects, redaction_instructions, pvars, rvars>>

\* the span the loop is at
TheItem == opinion_spans[item]

\* extractor.py 49-58: a new document with the pages of the span
ExtractOpen ==
    /\ pc = "item"
    /\ item <= Len(opinion_spans)
    /\ LET pages == InsertPdf(TheItem.start.page_index, TheItem.end.page_index)
       IN doc_out' = [pages |-> pages,
                      annots |-> [k \in DOMAIN pages |-> <<>>],
                      applied |-> [k \in DOMAIN pages |-> 0]]
    /\ pc' = "opened"
    /\ ExtractFrame
    /\ UNCHANGED <<item, masked_dir>>

\* extractor.py 128-149: masks on p_start = doc_out[0]
MaskStartPage ==
    /\ pc = "opened"
    /\ doc_out' = [doc_out EXCEPT !.annots[1] =
                      @ \o StartPageMasks(TheItem, page_columns_px, page_headers,
                                          page_footers, Pt(PageSize[1]), Pt(PageSize[2]))]
    /\ pc' = "start_masked"
    /\ ExtractFrame
    /\ UNCHANGED <<item, masked_dir>>

\* extractor.py 151-164: masks on p_end = doc_out[-1]
MaskEndPage ==
    /\ pc = "start_masked"
    /\ doc_out' = [doc_out EXCEPT !.annots[Len(doc_out.pages)] =
                      @ \o EndPageMasks(TheItem, page_columns_px, page_headers,
                                        page_footers, Pt(PageSize[1]), Pt(PageSize[2]))]
    /\ pc' = "end_masked"
    /\ ExtractFrame
    /\ UNCHANGED <<item, masked_dir>>

\* extractor.py 167-168: apply_redactions on every page of doc_out
MaskApply ==
    /\ pc = "end_masked"
    /\ doc_out' = [doc_out EXCEPT !.applied = [k \in DOMAIN @ |-> @[k] + 1]]
    /\ pc' = "masked"
    /\ ExtractFrame
    /\ UNCHANGED <<item, masked_dir>>

\* item.get("case_name", f"opinion_{n:03d}"), extractor.py 52
FileName(span) ==
    IF span.case_name # <<>> THEN span.case_name
    ELSE <<"o", "p", "i", "n", "i", "o", "n", "_">> \o FormatD(span.n, 3)

\* extractor.py 54, 75-76: save and close, then the next span
ExtractSave ==
    /\ pc = "masked"
    /\ masked_dir' = Append(masked_dir, [name |-> FileName(TheItem), doc |-> doc_out])
    /\ doc_out' = NoDoc
    /\ item' = item + 1
    /\ pc' = "item"
    /\ ExtractFrame

\* extractor.py 80-82
ExtractReturn ==
    /\ pc = "item"
    /\ item > Len(opinion_spans)
    /\ pc' = "returned"
    /\ ExtractFrame
    /\ UNCHANGED xvars

NextExtract ==
    \/ ExtractOpen
    \/ MaskStartPage
    \/ MaskEndPage
    \/ MaskApply
    \/ ExtractSave
    \/ ExtractReturn

SpecExtract == InitExtract /\ [][NextExtract]_vars

\* one redaction run or one splitting run
InitPasses == InitRedact \/ InitExtract

NextPasses == NextRedact \/ NextExtract

SpecPasses == InitPasses /\ [][NextPasses]_vars

----------------------------------------------------------------------------
(* Reading of a scanned list, used to state the planner's properties.      *)
(* Scanned is the list the state machine walks; positions are 1-based.     *)

Scanned == global_objects

LabelAt(j) == Scanned[j].label

KeyBetween(a, b) == \E k \in (a + 1)..(b - 1) : LabelAt(k) = "Key"

\* position j holds the caption that opens an opinion: every earlier caption
\* has been closed by a Key before j
OpensOpinion(j) ==
    /\ LabelAt(j) = "caption"
    /\ \A m \in 1..(j - 1) : LabelAt(m) = "caption" => KeyBetween(m, j)

\* an opinion is open after the first m objects
OpenAfter(m) == \E s \in 1..m : OpensOpinion(s) /\ ~KeyBetween(s, m + 1)

\* the Key at position k closes an opinion
ClosesOpinion(k) == LabelAt(k) = "Key" /\ OpenAfter(k - 1)

\* the caption that opened the opinion open after m objects
OpenerBefore(k) == CHOOSE s \in 1..(k - 1) : OpensOpinion(s) /\ ~KeyBetween(s, k)

ClosingKeys(m) == {k \in 1..m : ClosesOpinion(k)}

\* the r-th smallest element of a set of positions
NthOf(S, r) == CHOOSE k \in S : Cardinality({q \in S : q < k}) = r - 1

\* reading order of two layout objects: (page, LEFT before RIGHT, y1)
ColumnOrder(c) == CASE c = "LEFT" -> 0 [] c = "RIGHT" -> 1 [] OTHER -> 99

ReadsBeforeOrAt(a, b) ==
    \/ a.page_index < b.page_index
    \/ a.page_index = b.page_index /\ ColumnOrder(a.col) < ColumnOrder(b.col)
    \/ a.page_index = b.page_index /\ ColumnOrder(a.col) = ColumnOrder(b.col) /\ a.y1 <= b.y1

\* the end of the instruction the opinion opened at s should get: the first
\* line before its Key, else the first headmatter before its Key, else 0
EndOfOpinion(s) ==
    LET n == Len(Scanned)
        keys == {k \in (s + 1)..n : LabelAt(k) = "Key"}
        stop == IF keys = {} THEN n + 1 ELSE NthOf(keys, 1)
        lines == {k \in (s + 1)..(stop - 1) : LabelAt(k) = "line"}
        heads == {k \in (s + 1)..(stop - 1) : LabelAt(k) = "headmatter"}
    IN IF lines # {} THEN NthOf(lines, 1)
       ELSE IF heads # {} /\ keys # {} THEN NthOf(heads, 1)
       ELSE 0

InstructedOpinions == {s \in 1..Len(Scanned) : OpensOpinion(s) /\ EndOfOpinion(s) # 0}

----------------------------------------------------------------------------
(* Properties of OpinionPlanner.plan *)

\* C1: every redaction instruction plan returns has its start at or before
\* its end in reading order (page, LEFT before RIGHT, y1).
C1_StartPrecedesEnd ==
    \A r \in 1..Len(redaction_instructions) :
        ReadsBeforeOrAt(redaction_instructions[r].start, redaction_instructions[r].end)

\* C2: each opinion yields at most one instruction, from its caption to the
\* first line before its Key, else to the first headmatter between its
\* caption and its Key, else none.
C2_OneInstructionPerOpinion ==
    pc = "done" =>
        /\ Len(redaction_instructions) = Cardinality(InstructedOpinions)
        /\ \A r \in 1..Len(redaction_instructions) :
              LET s == NthOf(InstructedOpinions, r) IN
                 redaction_instructions[r] =
                    [start |-> Scanned[s], end |-> Scanned[EndOfOpinion(s)]]

\* C3: one span per Key met while an opinion is open (TRACKING or
\* LOCKED_UNTIL_KEY) and none for a Key met in WAIT_CAPTION; the span runs
\* from the caption that opened the opinion to that Key with reason
\* "caption->Key", and after a Key the state is WAIT_CAPTION.
C3_OneSpanPerClosingKey ==
    pc \in {"scan", "done"} =>
        /\ (current_state # WAIT_CAPTION) = OpenAfter(i - 1)
        /\ (i > 1 /\ LabelAt(i - 1) = "Key") => current_state = WAIT_CAPTION
        /\ Len(opinion_spans) = Cardinality(ClosingKeys(i - 1))
        /\ \A r \in 1..Len(opinion_spans) :
              LET k == NthOf(ClosingKeys(i - 1), r) IN
                 /\ opinion_spans[r].end = Scanned[k]
                 /\ opinion_spans[r].start = Scanned[OpenerBefore(k)]
                 /\ opinion_spans[r].reason = "caption->Key"

\* a span is out for an opinion closed in LOCKED_UNTIL_KEY; a later caption
\* was met while it was open and a Key was met while none was
C3_Witness ==
    /\ pc = "scan"
    /\ Len(opinion_spans) = 1
    /\ \E j \in 1..(i - 1) : LabelAt(j) = "caption" /\ ~OpensOpinion(j)
    /\ \E j \in 1..(i - 1) : LabelAt(j) = "Key" /\ ~ClosesOpinion(j)
    /\ \E j \in 1..(i - 1) : LabelAt(j) = "line" /\ OpenAfter(j)

FirstPageOf(r) == opinion_spans[r].start.page_index + first_page

\* C5: every span is named "{first_page:04d}-{counter:02d}", the counters of
\* one first page being 1..k in list order, so no name repeats.
C5_CaseNamesContiguous ==
    pc = "done" =>
        /\ \A r \in 1..Len(opinion_spans) :
              LET counter == Cardinality({q \in 1..r : FirstPageOf(q) = FirstPageOf(r)}) IN
                 /\ opinion_spans[r].case_name = CaseName(FirstPageOf(r), counter)
                 /\ (FirstPageOf(r) = 1 /\ counter = 2) =>
                        opinion_spans[r].case_name = <<"0", "0", "0", "1", "-", "0", "2">>
                 /\ (FirstPageOf(r) = 10000 /\ counter = 1) =>
                        opinion_spans[r].case_name = <<"1", "0", "0", "0", "0", "-", "0", "1">>
        /\ \A r, q \in 1..Len(opinion_spans) :
              r # q => opinion_spans[r].case_name # opinion_spans[q].case_name

\* three named spans, two of them starting on the same page
C5_Witness ==
    /\ pc = "done"
    /\ Len(opinion_spans) = 3
    /\ FirstPageOf(1) = FirstPageOf(2)
    /\ FirstPageOf(2) # FirstPageOf(3)
    /\ opinion_spans[2].case_name = <<"0", "0", "0", "1", "-", "0", "2">>

\* the object the loop is at is one no branch acts on: a label outside the
\* four, anything but a Key while locked, anything but a caption while
\* waiting for one
IgnoredHere ==
    /\ AtObject
    /\ \/ obj.label \notin {"caption", "line", "headmatter", "Key"}
       \/ current_state = LOCKED_UNTIL_KEY /\ obj.label \in {"caption", "line", "headmatter"}
       \/ current_state = WAIT_CAPTION /\ obj.label \in {"line", "headmatter", "Key"}

\* C19: a step over an object that is ignored leaves the state of the
\* machine, the tracked nodes, the instructions, the spans and the span
\* counter as they were.
C19_IgnoredObjectsChangeNothing ==
    [][IgnoredHere =>
          UNCHANGED <<current_state, active_start_node, candidate_end_node,
                      opinion_start_caption, redaction_instructions, opinion_spans,
                      opinion_idx>>]_vars

\* the loop has just passed a header or footnotes object, then a caption,
\* while locked after a first instruction
C19_Witness ==
    /\ pc = "scan"
    /\ i > 2
    /\ global_objects[i - 2].label \in FurnitureLabels
    /\ global_objects[i - 1].label = "caption"
    /\ current_state = LOCKED_UNTIL_KEY
    /\ Len(redaction_instructions) = 1

----------------------------------------------------------------------------
(* Properties of PDFRedactor._apply_instruction, stated on the page whose  *)
(* body redaction has just run for a single instruction                    *)

BodyDone == pc = "body_done" /\ Len(redaction_instructions) = 1

TheStart == redaction_instructions[1].start
TheEnd == redaction_instructions[1].end

\* the windows handed to the line redactor for the page
Forwarded == {text_windows[page_idx][k] : k \in 1..Len(text_windows[page_idx])}

Here == PageContext(global_objects, page_dimensions, page_columns_px, page_idx)

Ceiling == Here.ceiling_y
BottomLimit(col) == IF col = "LEFT" THEN Here.limit_bottom_left ELSE Here.limit_bottom_right

\* column col redacted from y = from to y = to (whole pixels, kept between
\* the ceiling and the column's bottom limit): one window, or none if empty
Region(col, from, to) ==
    LET top == Trunc(IF from < Ceiling THEN Ceiling ELSE from)
        bottom == Trunc(IF to > BottomLimit(col) THEN BottomLimit(col) ELSE to)
        xa == IF col = "LEFT" THEN Here.LEFT_X1 ELSE Here.RIGHT_X1
        xb == IF col = "LEFT" THEN Here.LEFT_X2 ELSE Here.RIGHT_X2
    IN IF bottom > top
       THEN {[x0 |-> Scaled(xa, Here.scale_x), y0 |-> Scaled(top, Here.scale_y),
              x1 |-> Scaled(xb, Here.scale_x), y1 |-> Scaled(bottom, Here.scale_y)]}
       ELSE {}

FullColumn(col) == Region(col, Ceiling, BottomLimit(col))

StartY == TheStart.y2 + config.start_offset
EndY == TheEnd.y1 + config.end_offset

\* C6: start and end on the page: in one column, that column from the start
\* to the end; in two columns (either way round), the start's column from
\* the start to the bottom limit and the end's column from the ceiling to
\* the end.
C6_SamePage ==
    (BodyDone /\ TheStart.page_index = page_idx /\ TheEnd.page_index = page_idx) =>
        Forwarded =
            IF TheStart.col = TheEnd.col
            THEN Region(TheStart.col, StartY, EndY)
            ELSE Region(TheStart.col, StartY, BottomLimit(TheStart.col))
                    \cup Region(TheEnd.col, Ceiling, EndY)

\* C7: start on an earlier page, end on the page: the end's column from the
\* ceiling to the end, and the whole LEFT column too if the end is RIGHT;
\* nothing in the RIGHT column if the end is LEFT.
C7_EndsOnPage ==
    (BodyDone /\ TheStart.page_index < page_idx /\ TheEnd.page_index = page_idx) =>
        Forwarded =
            Region(TheEnd.col, Ceiling, EndY)
               \cup (IF TheEnd.col = "RIGHT" THEN FullColumn("LEFT") ELSE {})

\* an instruction that ends in the RIGHT column of the page and began
\* earlier has put two windows on it
C7_Witness ==
    /\ BodyDone
    /\ TheStart.page_index < page_idx
    /\ TheEnd.page_index = page_idx
    /\ TheEnd.col = "RIGHT"
    /\ Cardinality(Forwarded) = 2

\* C8: start on the page, end on a later page: the start's column from the
\* start to the bottom limit, and the whole RIGHT column too if the start is
\* LEFT; nothing in the LEFT column if the start is RIGHT.
C8_StartsOnPage ==
    (BodyDone /\ TheStart.page_index = page_idx /\ TheEnd.page_index > page_idx) =>
        Forwarded =
            Region(TheStart.col, StartY, BottomLimit(TheStart.col))
               \cup (IF TheStart.col = "LEFT" THEN FullColumn("RIGHT") ELSE {})

\* an instruction that starts in the RIGHT column of the page and ends later
\* has put one window on it
C8_Witness ==
    /\ BodyDone
    /\ TheStart.page_index = page_idx
    /\ TheEnd.page_index > page_idx
    /\ TheStart.col = "RIGHT"
    /\ Cardinality(Forwarded) = 1

\* C9: on a page strictly between the start's and the end's, both columns
\* are redacted from the ceiling to their bottom limits.
C9_MiddlePage ==
    (BodyDone /\ TheStart.page_index < page_idx /\ page_idx < TheEnd.page_index) =>
        Forwarded = FullColumn("LEFT") \cup FullColumn("RIGHT")

\* a middle page with a footnote block in one column has two windows of
\* different heights
C9_Witness ==
    /\ BodyDone
    /\ TheStart.page_index < page_idx
    /\ page_idx < TheEnd.page_index
    /\ BottomLimit("LEFT") # BottomLimit("RIGHT")
    /\ Cardinality(Forwarded) = 2

\* C10: on a page before the start's or after the end's nothing is handed to
\* the line redactor.
C10_OffPage ==
    (BodyDone /\ (page_idx < TheStart.page_index \/ page_idx > TheEnd.page_index)) =>
        Forwarded = {}

\* the body redaction of the last page has run for an instruction that lies
\* on the first page and put a window there
C10_Witness ==
    /\ BodyDone
    /\ TheStart.page_index = 0
    /\ TheEnd.page_index = 0
    /\ page_idx = MaxPage
    /\ text_windows[0] # <<>>
    /\ Forwarded = {}

----------------------------------------------------------------------------
(* Properties of the windows and of the run of PDFRedactor.redact          *)

\* the x-bounds of a column of the page, in pixels
ColumnX1(col) == IF col = "LEFT" THEN Here.LEFT_X1 ELSE Here.RIGHT_X1
ColumnX2(col) == IF col = "LEFT" THEN Here.LEFT_X2 ELSE Here.RIGHT_X2

\* window w spans column col and has positive width and height
OnColumn(w, col) ==
    /\ w.x0 = Scaled(ColumnX1(col), Here.scale_x)
    /\ w.x1 = Scaled(ColumnX2(col), Here.scale_x)
    /\ w.x1.num > w.x0.num
    /\ w.y1.num > w.y0.num

\* window w ends at or above the bottom limit of column col
AboveBottom(w, col) == w.y1.num <= Scaled(BottomLimit(col), Here.scale_y).num

\* window w begins at or below the ceiling
BelowCeiling(w) == w.y0.num >= Scaled(Ceiling, Here.scale_y).num

\* C11: every window handed to the line redactor spans one column of the
\* page, has positive width and height, and lies between the ceiling and
\* that column's bottom limit.
C11_WindowsClamped ==
    (pc = "body_done") =>
        \A w \in Forwarded :
            \E col \in {"LEFT", "RIGHT"} :
                OnColumn(w, col) /\ AboveBottom(w, col) /\ BelowCeiling(w)

\* a step registers a region on page p of the document being redacted
RegistersOn(p) ==
    text_windows'[p] # text_windows[p] \/ redact_annots'[p] # redact_annots[p]

\* a step registers a mask on the k-th page of the document being built
MasksOn(k) ==
    /\ doc_out'.pages = doc_out.pages
    /\ k \in DOMAIN doc_out.annots
    /\ doc_out'.annots[k] # doc_out.annots[k]

\* every region is registered on a page before the page is applied
RegisteredBeforeApplied ==
    /\ \A p \in Pages : RegistersOn(p) => applied[p] = 0
    /\ \A k \in 1..NumPages : MasksOn(k) => doc_out.applied[k] = 0

\* no page has been applied twice, in the document being redacted, in the
\* document being built or in a saved one
AppliedAtMostOnce ==
    /\ \A p \in Pages : applied[p] <= 1
    /\ \A k \in DOMAIN doc_out.applied : doc_out.applied[k] <= 1
    /\ \A f \in DOMAIN masked_dir :
          \A k \in DOMAIN masked_dir[f].doc.applied : masked_dir[f].doc.applied[k] = 1

\* C12: in a redaction run and in a splitting run, a region is registered
\* on a page only while the page has not been applied, and a page is applied
\* at most once (exactly once in every saved opinion).
C12_RegisterThenApplyOnce ==
    [](AppliedAtMostOnce) /\ [][RegisteredBeforeApplied]_vars

\* a page of the redacted document has been applied with both kinds of
\* region registered on it
C12_Witness ==
    /\ pc = "page"
    /\ page_idx > 0
    /\ applied[page_idx - 1] = 1
    /\ text_windows[page_idx - 1] # <<>>
    /\ redact_annots[page_idx - 1] # <<>>

\* the regions one geometry computation registers on the page redact is at
BodyRegionsHere == BodyWindows(redaction_instructions, page_idx, Here, config)
ObjectRegionsHere ==
    ObjectBoxes(ObjsOnPage(global_objects, page_idx), Here.scale_x, Here.scale_y)
        \o HeaderBoxes(header_refined[page_idx],
                       HeaderCoord(ObjsOnPage(global_objects, page_idx)),
                       Here.scale_x, Here.scale_y)

\* C13: when the geometry computation has run again for a page that was
\* applied before, the regions registered on the page are those of the
\* first computation and no more.
C13_RerunRegistersNothing ==
    (pc = "objects_done" /\ applied[page_idx] >= 1) =>
        /\ text_windows[page_idx] = BodyRegionsHere
        /\ redact_annots[page_idx] = ObjectRegionsHere

\* an object of the input lacks page_index or coords
Malformed ==
    \E k \in DOMAIN global_objects :
        ~Has(global_objects[k], "page_index") \/ ~Has(global_objects[k], "coords")

\* C14: a run on an input with a malformed object registers no region on
\* any page and saves no document.
C14_MalformedFailsFast ==
    Malformed =>
        /\ \A p \in Pages : text_windows[p] = <<>> /\ redact_annots[p] = <<>>
        /\ ~saved

\* C15: a page without dimensions gets no region and is not applied, and
\* every page with dimensions that the loop has passed, before or after a
\* page without, has had its body windows computed and has been applied.
C15_PageWithoutDimensions ==
    /\ \A p \in Pages \ DOMAIN page_dimensions :
          text_windows[p] = <<>> /\ redact_annots[p] = <<>> /\ applied[p] = 0
    /\ \A p \in DOMAIN page_dimensions :
          p < page_idx =>
             /\ applied[p] = 1
             /\ text_windows[p] =
                   BodyWindows(redaction_instructions, p,
                               PageContext(global_objects, page_dimensions,
                                           page_columns_px, p),
                               config)
    /\ pc = "saved" => page_idx = NumPages

\* the run has saved a document whose page 1 had no dimensions and whose
\* page 2, after it, was redacted and applied
C15_Witness ==
    /\ pc = "saved"
    /\ 1 \notin DOMAIN page_dimensions
    /\ 2 \in DOMAIN page_dimensions
    /\ text_windows[1] = <<>>
    /\ text_windows[2] # <<>>
    /\ redact_annots[2] # <<>>
    /\ applied[2] = 1

\* y1 of the footnote blocks of the page that are in column col or in no
\* column
FootnoteTops(col) ==
    LET objs_on_page == ObjsOnPage(global_objects, page_idx)
    IN {objs_on_page[k].y1 : k \in {j \in DOMAIN objs_on_page :
                                      /\ objs_on_page[j].label = "footnotes"
                                      /\ objs_on_page[j].col \in {col} \cup ({objs_on_page[j].col} \ {"LEFT", "RIGHT"})}}

Least(S) == CHOOSE m \in S : \A n \in S : m <= n

\* image_height - 60 of the page, in pixels
DefaultBottom == Px(page_dimensions[page_idx][4]) - Px(60)

\* C20: the bottom limit of a column of the page is the least of
\* image_height - 60 and the y1 of the footnote blocks of the page that are
\* in that column or in no column.
C20_BottomLimits ==
    (pc = "body_done") =>
        \A col \in {"LEFT", "RIGHT"} :
            BottomLimit(col) = Least({DefaultBottom} \cup FootnoteTops(col))

\* a page with a footnote block in each column, the higher one in the RIGHT
\* column, and a window that stops at the LEFT limit
C20_Witness ==
    /\ pc = "body_done"
    /\ FootnoteTops("LEFT") = {Px(1800)}
    /\ FootnoteTops("RIGHT") = {Px(1500)}
    /\ BottomLimit("LEFT") = Px(1800)
    /\ BottomLimit("RIGHT") = Px(1500)
    /\ \E w \in Forwarded : w.y1 = Scaled(Px(1800), Here.scale_y)

----------------------------------------------------------------------------
(* Properties of OpinionExtractor, stated on the document being built for  *)
(* the span the loop is at.  Lengths are in 1/(dpi * Den) point.           *)

StartPage == TheItem.start.page_index
EndPage == TheItem.end.page_index

PageWidthPt == Pt(PageSize[1])
PageHeightPt == Pt(PageSize[2])

\* the header of page p in points plus 2 points, or 2 points without header
HeaderCeilingPt(p) ==
    (IF p \in DOMAIN page_headers THEN page_headers[p] * 72 ELSE 0) + Pt(2)

\* the footnote limit of page p in points, not below the page bottom; the
\* page bottom if the page has no footnote limit, a limit of 0 counting as
\* none
FooterLimitPt(p) ==
    IF p \in DOMAIN page_footers /\ page_footers[p] # 0
       /\ page_footers[p] * 72 < PageHeightPt
    THEN page_footers[p] * 72
    ELSE PageHeightPt

\* where the columns of page p meet, in points
SplitPt(p) ==
    IF p \in DOMAIN page_columns_px THEN page_columns_px[p][5] * 72 ELSE PageWidthPt \div 2

Opposite(col) == IF col = "LEFT" THEN "RIGHT" ELSE "LEFT"

\* column col of page p masked from y = top to y = bottom: one rectangle, or
\* none if it would be empty
ColumnMask(p, col, top, bottom) ==
    LET xa == IF col = "LEFT" THEN 0 ELSE SplitPt(p)
        xb == IF col = "LEFT" THEN SplitPt(p) ELSE PageWidthPt
    IN IF bottom > top /\ xb > xa
       THEN {[x0 |-> xa, y0 |-> top, x1 |-> xb, y1 |-> bottom]}
       ELSE {}

FullColumnMask(p, col) == ColumnMask(p, col, HeaderCeilingPt(p), FooterLimitPt(p))

\* the masks on the k-th page of the document being built
MasksOnPage(k) == {doc_out.annots[k][m] : m \in 1..Len(doc_out.annots[k])}

StartYPt == TheItem.start.y1 * 72
EndYPt == TheItem.end.y2 * 72

\* what the start page is to be masked with
StartMasksDue ==
    FullColumnMask(StartPage, Opposite(TheItem.start.col))
       \cup ColumnMask(StartPage, TheItem.start.col, HeaderCeilingPt(StartPage),
                       IF StartYPt < FooterLimitPt(StartPage)
                       THEN StartYPt ELSE FooterLimitPt(StartPage))

\* C16: on the start page of an opinion the column opposite the start is
\* masked from the header ceiling to the footer limit and the start's own
\* column from the header ceiling to the start y or to the footer limit if
\* that is higher up; an empty rectangle is not added.
C16_StartPageMasked ==
    (pc = "start_masked") => MasksOnPage(1) = StartMasksDue

\* an opinion that starts in the RIGHT column below a header: the LEFT
\* column is masked in full, the RIGHT one down to the start
C16_Witness ==
    /\ pc = "start_masked"
    /\ TheItem.start.col = "RIGHT"
    /\ StartPage \in DOMAIN page_headers
    /\ Cardinality(MasksOnPage(1)) = 2
    /\ \E r \in MasksOnPage(1) : r.x0 = SplitPt(StartPage) /\ r.y1 = StartYPt

\* the masks of the start page when it is the end page too
StartMasksOnEndPage == IF Len(doc_out.pages) = 1 THEN StartMasksDue ELSE {}

PageRange(a, b) == [k \in 1..(b - a + 1) |-> a + k - 1]

\* C18: the files saved so far are those of the spans handled so far, one
\* for each in order, each named by the case_name of its span and holding
\* the pages start.page_index..end.page_index in order; no two files have
\* the same name; on return every span has its file.
C18_OneFilePerSpan ==
    /\ Len(masked_dir) = item - 1
    /\ \A k \in DOMAIN masked_dir :
          /\ masked_dir[k].name = opinion_spans[k].case_name
          /\ masked_dir[k].doc.pages =
                PageRange(opinion_spans[k].start.page_index, opinion_spans[k].end.page_index)
    /\ \A k, m \in DOMAIN masked_dir : k # m => masked_dir[k].name # masked_dir[m].name
    /\ pc = "returned" => Len(masked_dir) = Len(opinion_spans)

\* two opinions that start on the same page have been saved to two files,
\* the first one of several pages
C18_Witness ==
    /\ pc = "returned"
    /\ Len(masked_dir) = 2
    /\ opinion_spans[1].start.page_index = opinion_spans[2].start.page_index
    /\ Len(masked_dir[2].doc.pages) > 1
    /\ masked_dir[1].name = <<"0", "0", "0", "1", "-", "0", "1">>
    /\ masked_dir[2].name = <<"0", "0", "0", "1", "-", "0", "2">>

----------------------------------------------------------------------------
(* Properties of what plan returns *)

\* the objects with label l on page p, as positions of the list
LabelledOn(l, p) ==
    {k \in DOMAIN global_objects :
        global_objects[k].label = l /\ global_objects[k].page_index = p}

PagesWith(l) == {global_objects[k].page_index : k \in {j \in DOMAIN global_objects :
                                                          global_objects[j].label = l}}

\* the list in another order
Reordered(q) == [k \in DOMAIN global_objects |-> global_objects[q[k]]]

\* C21: when plan returns, page_footers has an entry for the pages with a
\* footnotes object and no other, the least y1 of the page's footnotes;
\* page_headers has an entry for the pages with a header object and no
\* other, the y2 of one of the page's headers; both maps are those plan
\* computes for the same objects in any other order; with no object the
\* four results are empty.
C21_HeaderFooterMaps ==
    (pc = "done") =>
        /\ DOMAIN page_footers = PagesWith("footnotes")
        /\ \A p \in DOMAIN page_footers :
              page_footers[p] = Least({global_objects[k].y1 : k \in LabelledOn("footnotes", p)})
        /\ DOMAIN page_headers = PagesWith("header")
        /\ \A p \in DOMAIN page_headers :
              \E k \in LabelledOn("header", p) : page_headers[p] = global_objects[k].y2
        /\ \A q \in Permutations(DOMAIN global_objects) :
              /\ CollectHeaders(SortObjects(Reordered(q)), EmptyMap) = page_headers
              /\ CollectFooters(SortObjects(Reordered(q)), EmptyMap) = page_footers
        /\ global_objects = <<>> =>
              /\ redaction_instructions = <<>>
              /\ opinion_spans = <<>>
              /\ page_headers = EmptyMap
              /\ page_footers = EmptyMap

\* C22: every span plan has recorded has a start and an end, its start is
\* on the page of its end or on an earlier one, and the pages insert_pdf
\* copies for it are start.page_index..end.page_index in ascending order,
\* at least one page.
C22_SpansRunForward ==
    (pc \in {"scan", "done"}) =>
        \A k \in DOMAIN opinion_spans :
            LET s == opinion_spans[k].start
                e == opinion_spans[k].end
            IN /\ Truthy(s)
               /\ Truthy(e)
               /\ s.page_index <= e.page_index
               /\ InsertPdf(s.page_index, e.page_index) = PageRange(s.page_index, e.page_index)
               /\ Len(InsertPdf(s.page_index, e.page_index)) >= 1

C22_Witness ==
    /\ pc = "done"
    /\ \E k \in DOMAIN opinion_spans :
          opinion_spans[k].start.page_index < opinion_spans[k].end.page_index
    /\ \E k \in DOMAIN opinion_spans :
          opinion_spans[k].start.page_index = opinion_spans[k].end.page_index

\* C23: whenever plan returns, on the first call or a later one on the same
\* planner, the spans it returns are numbered 1..k in list order.
C23_SpansNumberedFromOne ==
    (pc = "done") =>
        \A r \in DOMAIN opinion_spans : opinion_spans[r].n = r

----------------------------------------------------------------------------
(* The header region of a page, redactor.py 271-313 *)

ObjectsDone == pc = "objects_done"

\* the header objects of the page, in list order
HeadersHere ==
    SelectSeq(ObjsOnPage(global_objects, page_idx), LAMBDA o : o.label = "header")

\* the regions registered on the page after the solid boxes of its line,
\* Key, brackets and order objects
HeaderRegions ==
    LET solid == SelectSeq(ObjsOnPage(global_objects, page_idx),
                           LAMBDA o : o.label \in {"line", "Key", "brackets", "order"})
        all == redact_annots[page_idx]
    IN SubSeq(all, Len(solid) + 1, Len(all))

\* what the refiner returned for the page
Refined == header_refined[page_idx]

\* the detected box of the header read last, in whole pixels
RawHeader == [k \in 1..4 |-> Trunc(HeadersHere[Len(HeadersHere)].coords[k])]

RawHeaderEmpty == RawHeader[4] <= RawHeader[2] \/ RawHeader[3] <= RawHeader[1]

\* the raw header box in points
RawHeaderBox ==
    [x0 |-> Scaled(RawHeader[1], Here.scale_x), y0 |-> Scaled(RawHeader[2], Here.scale_y),
     x1 |-> Scaled(RawHeader[3], Here.scale_x), y1 |-> Scaled(RawHeader[4], Here.scale_y)]

\* the refiner's box with its bottom at the lower of its own bottom and the
\* raw header's (both have the page's denominator)
ExtendedBox ==
    [Refined EXCEPT !.y1 = IF RawHeaderBox.y1.num > Refined.y1.num
                           THEN RawHeaderBox.y1 ELSE Refined.y1]

\* with a header object on the page exactly one header region is registered,
\* the extended refiner's box or else the raw box
OneRegionForHeader ==
    HeaderRegions = IF Refined # NoRect THEN <<ExtendedBox>> ELSE <<RawHeaderBox>>

\* C24 as stated: a header region is registered on a page only if the page
\* has a header object, and then exactly one: the refiner's box extended
\* down to the raw header's bottom, or the raw header box if the refiner
\* returns none.
C24_HeaderRegionOnlyWithHeader ==
    ObjectsDone =>
        /\ HeaderRegions # <<>> => HeadersHere # <<>>
        /\ HeadersHere # <<>> => OneRegionForHeader

\* C24 amended: at most one header region is registered on a page.  If the
\* refiner returns a box the region is that box, extended down to the raw
\* header's bottom when the page has a header object and unchanged when it
\* has none.  If the refiner returns none and the page has a header object
\* the region is the raw box of the header read last, or none when that box
\* is empty.  Otherwise there is no header region.
C24_HeaderRegion ==
    ObjectsDone =>
        /\ Len(HeaderRegions) <= 1
        /\ (Refined # NoRect /\ HeadersHere # <<>>) => HeaderRegions = <<ExtendedBox>>
        /\ (Refined # NoRect /\ HeadersHere = <<>>) => HeaderRegions = <<Refined>>
        /\ (Refined = NoRect /\ HeadersHere # <<>>) =>
              HeaderRegions = IF RawHeaderEmpty THEN <<>> ELSE <<RawHeaderBox>>
        /\ (Refined = NoRect /\ HeadersHere = <<>>) => HeaderRegions = <<>>

\* a header on the page and a refiner's box that ends above the header's
\* bottom: the one region reaches down to the header's bottom
C24_Witness ==
    /\ ObjectsDone
    /\ HeadersHere # <<>>
    /\ Refined # NoRect
    /\ Len(HeaderRegions) = 1
    /\ HeaderRegions[1].y1 = RawHeaderBox.y1
    /\ HeaderRegions[1].y1 # Refined.y1

=============================================================================
